---- MODULE Spec2Model ----
(***************************************************************************)
(* The two page controllers of the UGC internship portal front end:        *)
(*   - the review form page   (static/js/student_form.js)                  *)
(*   - the upload page        (the upload-certificate page script)         *)
(* Each page is a single-threaded event loop: one action per event         *)
(* handler, or per segment of an async handler between two awaits.         *)
(* Confidences are integers in hundredths (0.75 is 75, 1.0 is 100).        *)
(***************************************************************************)
EXTENDS Integers, Sequences, FiniteSets, TLC

\* ------------------------------------------------------------------ bounds
MaxEdits  == 1      \* change events per page load
MaxPosts  == 2      \* POSTs to /api/submit_internship per page load
MaxClicks == 2      \* clicks on the extract control per page load
MaxInputs == 2      \* changes of the file selection or the text area

\* --------------------------------------------------------------- constants
\* fieldConfidences[id] === undefined
Undefined == -1

EmptyObject == [a \in {} |-> 0]
\* data.extracted_fields when the response body has no such key
UndefinedFields == [defined |-> FALSE, fields |-> EmptyObject]

\* Object.entries(fieldMap), in insertion order: <<apiField, formField>>
fieldMap ==
  << <<"name", "name">>,
     <<"apaar_id", "apaarId">>,
     <<"institution_code", "institutionCode">>,
     <<"organization", "organization">>,
     <<"internship_title", "internshipTitle">>,
     <<"start_date", "startDate">>,
     <<"end_date", "endDate">>,
     <<"hours", "hours">> >>

\* the entries the model carries: name and hours (the loop bodies over
\* fieldMap treat every entry alike and share no state but the gating flag)
Entries     == { fieldMap[i] : i \in {1, Len(fieldMap)} }
ApiFields   == { e[1] : e \in Entries }
FormFields  == { e[2] : e \in Entries }
FormFieldOf(a) == (CHOOSE e \in Entries : e[1] = a)[2]

\* a form control that is not in fieldMap (collected in submitForm only)
Passthrough == {"level"}
Controls    == FormFields \cup Passthrough

\* what the extraction service may answer for one field
ServerValues == {"", "Asha"}
ServerConfs  == {0, 40, 60, 90}
\* what the user may type into a control
UserValues   == {"", "Ravi"}

\* an empty value is skipped whatever its confidence: one such answer is kept
ExtractedField ==
  [value : ServerValues \ {""}, conf : ServerConfs]
    \cup {[value |-> "", conf |-> 40]}
ExtractionResults ==
  UNION { [S -> ExtractedField] : S \in SUBSET ApiFields }

OriginalLabel   == "Submit for Credit Evaluation"
ProcessingLabel == "Processing..."


\* -------------------------------------------------------------------- state
VARIABLES
  fromUpload,          \* page reached through the upload flow, uploadId set
  loadPc,              \* position of loadExtractedData
  extractedFields,     \* module-scope extractedFields
  fieldConfidences,    \* module-scope fieldConfidences, Undefined if unset
  hasLowConfidence,    \* module-scope hasLowConfidence
  inputValue,          \* control id -> .value
  classList,           \* control id -> set of CSS classes
  confDiv,             \* form field -> the <id>_conf element
  confidenceIndicator, \* aggregate banner
  confirmModal,        \* "hidden" | "shown" | "hiding"
  submitBtn,           \* [disabled, textContent]
  errorSection,        \* [display, textContent]
  requests,            \* POSTs in flight: [id, pc, body, outcome]
  sent,                \* number of POSTs sent so far
  navigated,           \* window.location.href was assigned
  edits,               \* number of change events so far
  edited,              \* history: controls that got a change event
  lastEvent            \* history: the handler that ran last, what it saw

\* state of the upload page
VARIABLES
  certificateFile,     \* certificateFile.files: <<>> or <<file>>
  certificateText,     \* certificateText.value
  extractBtn,          \* [disabled]
  progressSection,     \* [display]
  progressBar,         \* percent shown by updateProgress, 0 before any
  progressText,        \* label shown by updateProgress
  uploadErrorSection,  \* errorSection of the upload page
  attempts,            \* running click handlers: [id, pc, hasFile, hasText]
                       \* and, as history, the inputs that were validated
  uploads,             \* requests to /api/upload_certificate in flight
  clicks,              \* number of clicks on extractBtn so far
  inputs,              \* number of input changes so far
  uploadNavigated,     \* window.location.href was assigned
  uploadEvent          \* history: the handler segment that ran last

uploadVars ==
  << certificateFile, certificateText, extractBtn, progressSection,
     progressBar, progressText, uploadErrorSection, attempts, uploads,
     clicks, inputs, uploadNavigated, uploadEvent >>

reviewVars ==
  << fromUpload, loadPc, extractedFields, fieldConfidences, hasLowConfidence,
     inputValue, classList, confDiv, confidenceIndicator, confirmModal,
     submitBtn, errorSection, requests, sent, navigated, edits, edited,
     lastEvent >>

vars == << reviewVars, uploadVars >>

\* ------------------------------------------------------------------ helpers
\* mutant: the High threshold is exclusive
LevelStrict(conf) ==
  IF conf > 75 THEN "high"
  ELSE IF conf >= 50 THEN "medium"
  ELSE IF conf > 0 THEN "low"
  ELSE "unset"

\* FieldConfidenceLevel as the threshold branches of autoFillForm decide it
Level(conf) ==
  IF conf >= 75 THEN "high"
  ELSE IF conf >= 50 THEN "medium"
  ELSE IF conf > 0 THEN "low"
  ELSE "unset"

NeedsVerification(conf) == Level(conf) \in {"medium", "low"}

\* a control is in Medium or Low state: its recorded confidence is
NeedsReview(f) ==
  /\ fieldConfidences[f] # Undefined
  /\ NeedsVerification(fieldConfidences[f])

AnyNeedsReview == \E f \in Controls : NeedsReview(f)

NoBadge == [className |-> "", textContent |-> ""]

Badge(conf) ==
  [className   |-> "field-confidence confidence-" \o Level(conf),
   textContent |->
     IF Level(conf) = "high"
     THEN "High confidence (" \o ToString(conf) \o "%)"
     ELSE IF Level(conf) = "medium"
     THEN "Medium confidence (" \o ToString(conf) \o "%) - Please verify"
     ELSE "Low confidence (" \o ToString(conf) \o "%) - Please verify"]

VerifiedBadge ==
  [className   |-> "field-confidence confidence-high",
   textContent |-> "Verified by student"]

\* mutant: a field without a recorded confidence is sent with confidence 0
buildConfidenceObjectDefaulted ==
  [a \in ApiFields |->
     [value |-> inputValue[FormFieldOf(a)],
      conf  |-> IF fieldConfidences[FormFieldOf(a)] = Undefined THEN 0
                ELSE fieldConfidences[FormFieldOf(a)]]]

\* buildConfidenceObject
buildConfidenceObject ==
  LET present == { a \in ApiFields :
                     fieldConfidences[FormFieldOf(a)] # Undefined }
  IN  [a \in present |->
         [value |-> inputValue[FormFieldOf(a)],
          conf  |-> fieldConfidences[FormFieldOf(a)]]]

\* the formData object of submitForm
formData ==
  [upload_id |-> IF fromUpload THEN "u1" ELSE "",
   values    |-> [a \in ApiFields |-> inputValue[FormFieldOf(a)]],
   level     |-> inputValue["level"],
   field_confidences |-> buildConfidenceObject]

\* --------------------------------------------------------------------- Init
\* the upload page right after its script ran
UploadPageInit ==
  /\ certificateFile = << >>
  /\ certificateText = ""
  /\ extractBtn = [disabled |-> FALSE]
  /\ progressSection = [display |-> "none"]
  /\ progressBar = 0
  /\ progressText = ""
  /\ uploadErrorSection = [display |-> "none", textContent |-> ""]
  /\ attempts = {}
  /\ uploads = {}
  /\ clicks = 0
  /\ inputs = 0
  /\ uploadNavigated = FALSE
  /\ uploadEvent = [op |-> "load"]

\* the review page right after its script ran (loadExtractedData is called
\* iff fromUpload === '1' && uploadId)
ReviewPageInit(flags) ==
  /\ fromUpload \in flags
  /\ loadPc = IF fromUpload THEN "fetch" ELSE "none"
  /\ extractedFields = [defined |-> TRUE, fields |-> EmptyObject]
  /\ fieldConfidences = [f \in Controls |-> Undefined]
  /\ hasLowConfidence = FALSE
  /\ inputValue = [f \in Controls |-> ""]
  /\ classList = [f \in Controls |-> {}]
  /\ confDiv = [f \in FormFields |-> NoBadge]
  /\ confidenceIndicator = [display |-> "none", className |-> ""]
  /\ confirmModal = "hidden"
  /\ submitBtn = [disabled |-> FALSE, textContent |-> OriginalLabel]
  /\ errorSection = [display |-> "none", textContent |-> ""]
  /\ requests = {}
  /\ sent = 0
  /\ navigated = FALSE
  /\ edits = 0
  /\ edited = {}
  /\ lastEvent = [op |-> "load"]

Init == ReviewPageInit(BOOLEAN) /\ UploadPageInit

\* ----------------------------------------------------- loadExtractedData
\* await fetch(.../api/upload/<uploadId>): resolves, or rejects into the catch
LoadFetchDone ==
  /\ ~navigated
  /\ loadPc = "fetch"
  /\ \E ok \in BOOLEAN : loadPc' = IF ok THEN "json" ELSE "failed"
  /\ lastEvent' = [op |-> "loadFetch"]
  /\ UNCHANGED << uploadVars, fromUpload, extractedFields, fieldConfidences,
                  hasLowConfidence, inputValue, classList, confDiv,
                  confidenceIndicator, confirmModal, submitBtn, errorSection,
                  requests, sent, navigated, edits, edited >>

\* await response.json() rejects (or data is null): the catch logs it
LoadJsonFails ==
  /\ ~navigated
  /\ loadPc = "json"
  /\ loadPc' = "failed"
  /\ lastEvent' = [op |-> "loadJsonFailed"]
  /\ UNCHANGED << uploadVars, fromUpload, extractedFields, fieldConfidences,
                  hasLowConfidence, inputValue, classList, confDiv,
                  confidenceIndicator, confirmModal, submitBtn, errorSection,
                  requests, sent, navigated, edits, edited >>

\* await response.json() resolves: extractedFields = data.extracted_fields
\* (Undefined when the body has no such key), and the 300 ms timer is set
LoadJsonDone ==
  /\ ~navigated
  /\ loadPc = "json"
  /\ \/ extractedFields' = UndefinedFields
     \/ \E ef \in ExtractionResults :
          extractedFields' = [defined |-> TRUE, fields |-> ef]
  /\ loadPc' = "timer"
  /\ lastEvent' = [op |-> "loadJson"]
  /\ UNCHANGED << uploadVars, fromUpload, fieldConfidences, hasLowConfidence, inputValue,
                  classList, confDiv, confidenceIndicator, confirmModal,
                  submitBtn, errorSection, requests, sent, navigated, edits,
                  edited >>

\* ------------------------------------------------------------ autoFillForm
\* the api fields the loop body fills: fields[apiField] && value && input
Filled(fields) ==
  { a \in ApiFields \cap DOMAIN fields : fields[a].value # "" }

ApiFieldOf(f) == (CHOOSE e \in Entries : e[2] = f)[1]

FillsControl(fields, f) ==
  f \in FormFields /\ ApiFieldOf(f) \in Filled(fields)

\* const conf = fields[apiField].conf || 0
ConfOf(fields, a) ==
  IF fields[a].conf = Undefined THEN 0 ELSE fields[a].conf

AutoFillValue(fields, f) ==
  IF FillsControl(fields, f) THEN fields[ApiFieldOf(f)].value
  ELSE inputValue[f]

AutoFillConfidence(fields, f) ==
  IF FillsControl(fields, f) THEN ConfOf(fields, ApiFieldOf(f))
  ELSE fieldConfidences[f]

\* mutant: the fill animation class is toggled instead of added
AutoFillClassesToggled(fields, f) ==
  IF FillsControl(fields, f)
  THEN ( IF "animate-fill" \in classList[f]
         THEN classList[f] \ {"animate-fill"}
         ELSE classList[f] \cup {"animate-fill"} ) \cup
         ( IF NeedsVerification(ConfOf(fields, ApiFieldOf(f)))
           THEN {"low-confidence-field"} ELSE {} )
  ELSE classList[f]

AutoFillClasses(fields, f) ==
  IF FillsControl(fields, f)
  THEN classList[f] \cup {"animate-fill"} \cup
         ( IF NeedsVerification(ConfOf(fields, ApiFieldOf(f)))
           THEN {"low-confidence-field"} ELSE {} )
  ELSE classList[f]

AutoFillBadge(fields, f) ==
  IF FillsControl(fields, f) /\ ConfOf(fields, ApiFieldOf(f)) > 0
  THEN Badge(ConfOf(fields, ApiFieldOf(f)))
  ELSE confDiv[f]

AutoFillHasLow(fields) ==
  \E a \in Filled(fields) : NeedsVerification(ConfOf(fields, a))

AutoFillBanner(fields) ==
  IF DOMAIN fields # {}
  THEN [display   |-> "block",
        className |-> IF ~AutoFillHasLow(fields)
                      THEN "alert confidence-indicator-all-high"
                      ELSE "alert confidence-indicator-needs-attention"]
  ELSE confidenceIndicator

\* autoFillForm(fields), fields being the object ef.fields or undefined.
\* With fields undefined the loop throws after hasLowConfidence = false.
autoFillForm(ef) ==
  IF ~ef.defined
  THEN /\ hasLowConfidence' = FALSE
       /\ UNCHANGED << fieldConfidences, inputValue, classList, confDiv,
                       confidenceIndicator >>
  ELSE /\ hasLowConfidence' = AutoFillHasLow(ef.fields)
       /\ inputValue' = [f \in Controls |-> AutoFillValue(ef.fields, f)]
       /\ fieldConfidences' =
            [f \in Controls |-> AutoFillConfidence(ef.fields, f)]
       /\ classList' = [f \in Controls |-> AutoFillClasses(ef.fields, f)]
       /\ confDiv' = [f \in FormFields |-> AutoFillBadge(ef.fields, f)]
       /\ confidenceIndicator' = AutoFillBanner(ef.fields)

\* the 300 ms timer fires: autoFillForm(extractedFields)
AutoFillTimer ==
  /\ ~navigated
  /\ loadPc = "timer"
  /\ loadPc' = "done"
  /\ autoFillForm(extractedFields)
  /\ lastEvent' = [op |-> "autoFill"]
  /\ UNCHANGED << uploadVars, fromUpload, extractedFields, confirmModal, submitBtn,
                  errorSection, requests, sent, navigated, edits, edited >>

\* ------------------------------------------------- change listener on inputs
\* mutant: the change listener leaves the recorded confidence alone
EditedConfidenceKept(f) == fieldConfidences[f]

EditedConfidence(f) == 100

EditedClasses(f) ==
  (classList[f] \ {"low-confidence-field"}) \cup {"field-verified"}

\* the user commits a new value v in control f: the change event fires
Edit(f, v) ==
  /\ ~navigated
  /\ edits < MaxEdits
  /\ v # inputValue[f]
  /\ inputValue' = [inputValue EXCEPT ![f] = v]
  /\ classList' = [classList EXCEPT ![f] = EditedClasses(f)]
  /\ fieldConfidences' = [fieldConfidences EXCEPT ![f] = EditedConfidence(f)]
  /\ confDiv' = IF f \in FormFields
                THEN [confDiv EXCEPT ![f] = VerifiedBadge]
                ELSE confDiv
  /\ edits' = edits + 1
  /\ edited' = edited \cup {f}
  /\ lastEvent' = [op |-> "edit", field |-> f]
  /\ UNCHANGED << uploadVars, fromUpload, loadPc, extractedFields, hasLowConfidence,
                  confidenceIndicator, confirmModal, submitBtn, errorSection,
                  requests, sent, navigated >>

\* ------------------------------------------------------------- submitForm
\* submitForm up to its first await: disable, relabel, collect, fetch
NewRequest(via) ==
  [id |-> sent + 1, pc |-> "fetch", body |-> formData, via |-> via]

SendPost(via) ==
  /\ submitBtn' = [disabled |-> TRUE, textContent |-> ProcessingLabel]
  /\ requests' = requests \cup {NewRequest(via)}
  /\ sent' = sent + 1

\* mutant: the gate also closes while no extraction data has been loaded
SubmitInterceptedUnlessLoaded ==
  hasLowConfidence \/ (fromUpload /\ loadPc # "done")

\* the gate of the submit listener
SubmitIntercepted == hasLowConfidence

\* bootstrap Modal.show(): nothing while shown or in transition
ModalShow == IF confirmModal = "hidden" THEN "shown" ELSE confirmModal

\* bootstrap Modal.hide(): returns before the modal is actually hidden
ModalHide == IF confirmModal = "shown" THEN "hiding" ELSE confirmModal

\* the form's submit event; the browser fires none while the submit
\* button is disabled
SubmitEvent ==
  /\ ~navigated
  /\ ~submitBtn.disabled
  /\ IF SubmitIntercepted
     THEN /\ confirmModal' = ModalShow
          /\ UNCHANGED << submitBtn, requests, sent >>
     ELSE /\ sent < MaxPosts
          /\ SendPost("submit")
          /\ UNCHANGED confirmModal
  /\ lastEvent' = [op       |-> "submit",
                   anyLow   |-> AnyNeedsReview,
                   prompted |-> SubmitIntercepted,
                   modal    |-> confirmModal]
  /\ UNCHANGED << uploadVars, fromUpload, loadPc, extractedFields, fieldConfidences,
                  hasLowConfidence, inputValue, classList, confDiv,
                  confidenceIndicator, errorSection, navigated, edits,
                  edited >>

\* a click on #confirmSubmit, reachable while the modal is on screen
ConfirmClick ==
  /\ ~navigated
  /\ confirmModal \in {"shown", "hiding"}
  /\ sent < MaxPosts
  /\ confirmModal' = ModalHide
  /\ SendPost("confirm")
  /\ lastEvent' = [op |-> "confirm", modal |-> confirmModal]
  /\ UNCHANGED << uploadVars, fromUpload, loadPc, extractedFields, fieldConfidences,
                  hasLowConfidence, inputValue, classList, confDiv,
                  confidenceIndicator, errorSection, navigated, edits,
                  edited >>

\* the modal's hide transition ends
ModalHidden ==
  /\ ~navigated
  /\ confirmModal = "hiding"
  /\ confirmModal' = "hidden"
  /\ lastEvent' = [op |-> "modalHidden"]
  /\ UNCHANGED << uploadVars, fromUpload, loadPc, extractedFields, fieldConfidences,
                  hasLowConfidence, inputValue, classList, confDiv,
                  confidenceIndicator, submitBtn, errorSection, requests,
                  sent, navigated, edits, edited >>

\* the user dismisses the prompt without confirming
DismissModal ==
  /\ ~navigated
  /\ confirmModal = "shown"
  /\ confirmModal' = "hiding"
  /\ lastEvent' = [op |-> "dismiss"]
  /\ UNCHANGED << uploadVars, fromUpload, loadPc, extractedFields, fieldConfidences,
                  hasLowConfidence, inputValue, classList, confDiv,
                  confidenceIndicator, submitBtn, errorSection, requests,
                  sent, navigated, edits, edited >>

\* error.message in the catch of submitForm
SubmitErrorMessage(outcome) ==
  IF outcome = "not_ok" THEN "Submission failed"
  ELSE IF outcome = "network_error" THEN "Failed to fetch"
  ELSE "Unexpected end of JSON input"

SubmitErrorSection(outcome) ==
  [display     |-> "block",
   textContent |-> "Submission failed: " \o SubmitErrorMessage(outcome)]

\* mutant: the catch leaves the submit control as submitForm set it
SubmitCatchButtonStuck ==
  [disabled |-> TRUE, textContent |-> ProcessingLabel]

SubmitCatchButton == [disabled |-> FALSE, textContent |-> OriginalLabel]

\* mutant: the catch also resets the form
SubmitCatchResets(r, outcome) ==
  /\ errorSection' = SubmitErrorSection(outcome)
  /\ submitBtn' = SubmitCatchButton
  /\ requests' = requests \ {r}
  /\ lastEvent' = [op |-> "postFailed", request |-> r, outcome |-> outcome,
                   before |-> requests]
  /\ inputValue' = [f \in Controls |-> ""]
  /\ fieldConfidences' = [f \in Controls |-> Undefined]
  /\ UNCHANGED << uploadVars, fromUpload, loadPc, extractedFields,
                  hasLowConfidence, classList, confDiv, confidenceIndicator,
                  confirmModal, sent, navigated, edits, edited >>

\* the catch block of submitForm
SubmitCatch(r, outcome) ==
  /\ errorSection' = SubmitErrorSection(outcome)
  /\ submitBtn' = SubmitCatchButton
  /\ requests' = requests \ {r}
  /\ lastEvent' = [op |-> "postFailed", request |-> r, outcome |-> outcome,
                   before |-> requests]
  /\ UNCHANGED << uploadVars, fromUpload, loadPc, extractedFields, fieldConfidences,
                  hasLowConfidence, inputValue, classList, confDiv,
                  confidenceIndicator, confirmModal, sent, navigated, edits,
                  edited >>

\* await fetch(POST) rejects, or resolves with !response.ok
PostFetchFails(r) ==
  /\ ~navigated
  /\ r.pc = "fetch"
  /\ \E outcome \in {"not_ok", "network_error"} : SubmitCatch(r, outcome)

\* await fetch(POST) resolves with response.ok
PostFetchOk(r) ==
  /\ ~navigated
  /\ r.pc = "fetch"
  /\ requests' = (requests \ {r}) \cup {[r EXCEPT !.pc = "json"]}
  /\ lastEvent' = [op |-> "postOk"]
  /\ UNCHANGED << uploadVars, fromUpload, loadPc, extractedFields, fieldConfidences,
                  hasLowConfidence, inputValue, classList, confDiv,
                  confidenceIndicator, confirmModal, submitBtn, errorSection,
                  sent, navigated, edits, edited >>

\* await response.json() rejects
PostJsonFails(r) ==
  /\ ~navigated
  /\ r.pc = "json"
  /\ SubmitCatch(r, "bad_json")

\* await response.json() resolves: window.location.href = data.redirect_url
PostJsonDone(r) ==
  /\ ~navigated
  /\ r.pc = "json"
  /\ navigated' = TRUE
  /\ requests' = requests \ {r}
  /\ lastEvent' = [op |-> "redirect"]
  /\ UNCHANGED << uploadVars, fromUpload, loadPc, extractedFields, fieldConfidences,
                  hasLowConfidence, inputValue, classList, confDiv,
                  confidenceIndicator, confirmModal, submitBtn, errorSection,
                  sent, edits, edited >>

\* =========================================================== upload page
\* what the user may leave in the text area, and the files they may pick
TextValues == {"", " ", "cert", " cert "}
FileValues == {"a.pdf", "b.pdf"}

\* String.prototype.trim over the blank character
RECURSIVE TrimStart(_)
TrimStart(s) ==
  IF Len(s) > 0 /\ SubSeq(s, 1, 1) = " "
  THEN TrimStart(SubSeq(s, 2, Len(s)))
  ELSE s

RECURSIVE TrimEnd(_)
TrimEnd(s) ==
  IF Len(s) > 0 /\ SubSeq(s, Len(s), Len(s)) = " "
  THEN TrimEnd(SubSeq(s, 1, Len(s) - 1))
  ELSE s

Trim(s) == TrimEnd(TrimStart(s))

hasFile == Len(certificateFile) > 0
\* mutant: the text is counted without trimming
hasTextUntrimmed == Len(certificateText) > 0

hasText == Len(Trim(certificateText)) > 0

\* the user picks, replaces or clears the file selection
SelectFile ==
  /\ ~uploadNavigated
  /\ inputs < MaxInputs
  /\ \E files \in {<< >>} \cup { <<f>> : f \in FileValues } :
       /\ files # certificateFile
       /\ certificateFile' = files
  /\ inputs' = inputs + 1
  /\ uploadEvent' = [op |-> "input"]
  /\ UNCHANGED << reviewVars, certificateText, extractBtn, progressSection,
                  progressBar, progressText, uploadErrorSection, attempts,
                  uploads, clicks, uploadNavigated >>

\* the user changes the text area
EditText ==
  /\ ~uploadNavigated
  /\ inputs < MaxInputs
  /\ \E t \in TextValues :
       /\ t # certificateText
       /\ certificateText' = t
  /\ inputs' = inputs + 1
  /\ uploadEvent' = [op |-> "input"]
  /\ UNCHANGED << reviewVars, certificateFile, extractBtn, progressSection,
                  progressBar, progressText, uploadErrorSection, attempts,
                  uploads, clicks, uploadNavigated >>

\* showError(message)
showError(message) == [display |-> "block", textContent |-> message]

\* the validation of the click listener: the message shown, "" when it passes
ValidationError ==
  IF ~hasFile /\ ~hasText
  THEN "Please upload a file or paste certificate text"
  ELSE IF hasFile /\ hasText
  THEN "Please use either file upload or text paste, not both"
  ELSE ""

\* mutant: the control is not disabled for the attempt
EnabledForAttempt == FALSE

\* mutant: the OCR and the field-extraction stages are shown in each
\* other's place
StagePercentSwapped(stage) ==
  IF stage = "received" THEN 25
  ELSE IF stage = "ocr" THEN 75
  ELSE IF stage = "extracting" THEN 50
  ELSE 100

\* the percent and the label of the four updateProgress calls
StagePercent(stage) ==
  IF stage = "received" THEN 25
  ELSE IF stage = "ocr" THEN 50
  ELSE IF stage = "extracting" THEN 75
  ELSE 100

StageText(stage) ==
  IF stage = "received" THEN "Received -> Processing..."
  ELSE IF stage = "ocr" THEN "OCR -> Extracting text..."
  ELSE IF stage = "extracting" THEN "Extracting fields -> Analyzing..."
  ELSE "Done -> Redirecting..."

\* extractBtn.disabled = true once validation passed
DisabledForAttempt == TRUE

\* a click on extractBtn (the browser fires none on a disabled button):
\* validation, then the handler runs up to await sleep(500)
ExtractClick ==
  /\ ~uploadNavigated
  /\ ~extractBtn.disabled
  /\ clicks < MaxClicks
  /\ clicks' = clicks + 1
  /\ IF ValidationError # ""
     THEN /\ uploadErrorSection' = showError(ValidationError)
          /\ uploadEvent' = [op |-> "rejected", files |-> certificateFile,
                             text |-> certificateText]
          /\ UNCHANGED << extractBtn, progressSection, progressBar,
                          progressText, attempts >>
     ELSE /\ uploadErrorSection' =
               [uploadErrorSection EXCEPT !.display = "none"]
          /\ progressSection' = [display |-> "block"]
          /\ extractBtn' = [disabled |-> DisabledForAttempt]
          /\ progressBar' = StagePercent("received")
          /\ progressText' = StageText("received")
          /\ attempts' = attempts \cup
               {[id |-> clicks + 1, pc |-> "sleep500",
                 hasFile |-> hasFile, hasText |-> hasText,
                 validated |-> [files |-> certificateFile,
                                text  |-> certificateText]]}
          /\ uploadEvent' = [op |-> "started", files |-> certificateFile,
                             text |-> certificateText]
  /\ UNCHANGED << reviewVars, certificateFile, certificateText, uploads,
                  inputs, uploadNavigated >>

\* sleep(500) is over: updateProgress(50), await sleep(800)
OcrStage(a) ==
  /\ ~uploadNavigated
  /\ a.pc = "sleep500"
  /\ progressBar' = StagePercent("ocr")
  /\ progressText' = StageText("ocr")
  /\ attempts' = (attempts \ {a}) \cup {[a EXCEPT !.pc = "sleep800"]}
  /\ uploadEvent' = [op |-> "ocr"]
  /\ UNCHANGED << reviewVars, certificateFile, certificateText, extractBtn,
                  progressSection, uploadErrorSection, uploads, clicks,
                  inputs, uploadNavigated >>

\* the body of the request: files[0] of the selection as it is now (the
\* string "undefined" when it was cleared), or the text area as it is now
RequestBody(a) ==
  IF a.hasFile
  THEN [kind |-> "multipart",
        content |-> IF Len(certificateFile) > 0 THEN certificateFile[1]
                    ELSE "undefined"]
  ELSE [kind |-> "json", content |-> certificateText]

\* sleep(800) is over: the request is built and fetch is called
SendUpload(a) ==
  /\ ~uploadNavigated
  /\ a.pc = "sleep800"
  /\ attempts' = (attempts \ {a}) \cup {[a EXCEPT !.pc = "fetch"]}
  /\ uploads' = uploads \cup {[id |-> a.id, body |-> RequestBody(a)]}
  /\ uploadEvent' = [op |-> "sent"]
  /\ UNCHANGED << reviewVars, certificateFile, certificateText, extractBtn,
                  progressSection, progressBar, progressText,
                  uploadErrorSection, clicks, inputs, uploadNavigated >>

\* error.message in the catch of the click listener
ExtractErrorMessage(outcome) ==
  IF outcome = "not_ok" THEN "Upload failed"
  ELSE IF outcome = "network_error" THEN "Failed to fetch"
  ELSE "Unexpected end of JSON input"

ExtractCatchError(outcome) ==
  showError("Extraction failed: " \o ExtractErrorMessage(outcome))

\* mutant: the catch leaves the control disabled
ExtractCatchButtonDisabled == [disabled |-> TRUE]

ExtractCatchButton == [disabled |-> FALSE]

\* mutant: the catch leaves the progress indicator on screen
ExtractCatchProgressShown == [display |-> "block"]

ExtractCatchProgress == [display |-> "none"]

\* the catch block of the click listener
ExtractCatch(a, outcome) ==
  /\ uploadErrorSection' = ExtractCatchError(outcome)
  /\ progressSection' = ExtractCatchProgress
  /\ extractBtn' = ExtractCatchButton
  /\ attempts' = attempts \ {a}
  /\ uploads' = { u \in uploads : u.id # a.id }
  /\ uploadEvent' = [op |-> "failed", outcome |-> outcome,
                     uploads |-> uploads]
  /\ UNCHANGED << reviewVars, certificateFile, certificateText, progressBar,
                  progressText, clicks, inputs, uploadNavigated >>

\* await fetch rejects, or resolves with !response.ok
UploadFails(a) ==
  /\ ~uploadNavigated
  /\ a.pc = "fetch"
  /\ \E outcome \in {"not_ok", "network_error"} : ExtractCatch(a, outcome)

\* await fetch resolves with response.ok: updateProgress(75), sleep(600)
ExtractingStage(a) ==
  /\ ~uploadNavigated
  /\ a.pc = "fetch"
  /\ progressBar' = StagePercent("extracting")
  /\ progressText' = StageText("extracting")
  /\ attempts' = (attempts \ {a}) \cup {[a EXCEPT !.pc = "sleep600"]}
  /\ uploads' = { u \in uploads : u.id # a.id }
  /\ uploadEvent' = [op |-> "extracting"]
  /\ UNCHANGED << reviewVars, certificateFile, certificateText, extractBtn,
                  progressSection, uploadErrorSection, clicks, inputs,
                  uploadNavigated >>

\* sleep(600) is over: await response.json()
ReadJson(a) ==
  /\ ~uploadNavigated
  /\ a.pc = "sleep600"
  /\ attempts' = (attempts \ {a}) \cup {[a EXCEPT !.pc = "json"]}
  /\ uploadEvent' = [op |-> "json"]
  /\ UNCHANGED << reviewVars, certificateFile, certificateText, extractBtn,
                  progressSection, progressBar, progressText,
                  uploadErrorSection, uploads, clicks, inputs,
                  uploadNavigated >>

\* await response.json() rejects
UploadJsonFails(a) ==
  /\ ~uploadNavigated
  /\ a.pc = "json"
  /\ ExtractCatch(a, "bad_json")

\* await response.json() resolves: updateProgress(100), await sleep(500)
DoneStage(a) ==
  /\ ~uploadNavigated
  /\ a.pc = "json"
  /\ progressBar' = StagePercent("done")
  /\ progressText' = StageText("done")
  /\ attempts' = (attempts \ {a}) \cup {[a EXCEPT !.pc = "redirecting"]}
  /\ uploadEvent' = [op |-> "done"]
  /\ UNCHANGED << reviewVars, certificateFile, certificateText, extractBtn,
                  progressSection, uploadErrorSection, uploads, clicks,
                  inputs, uploadNavigated >>

\* the last sleep(500) is over: window.location.href = data.redirect_url
Redirect(a) ==
  /\ ~uploadNavigated
  /\ a.pc = "redirecting"
  /\ uploadNavigated' = TRUE
  /\ attempts' = attempts \ {a}
  /\ uploadEvent' = [op |-> "navigated"]
  /\ UNCHANGED << reviewVars, certificateFile, certificateText, extractBtn,
                  progressSection, progressBar, progressText,
                  uploadErrorSection, uploads, clicks, inputs >>

UploadNext ==
  \/ SelectFile
  \/ EditText
  \/ ExtractClick
  \/ \E a \in attempts : OcrStage(a)
  \/ \E a \in attempts : SendUpload(a)
  \/ \E a \in attempts : UploadFails(a)
  \/ \E a \in attempts : ExtractingStage(a)
  \/ \E a \in attempts : ReadJson(a)
  \/ \E a \in attempts : UploadJsonFails(a)
  \/ \E a \in attempts : DoneStage(a)
  \/ \E a \in attempts : Redirect(a)

\* the upload page alone; the review page is not loaded
UploadInit == ReviewPageInit({FALSE}) /\ UploadPageInit

UploadSpec == UploadInit /\ [][UploadNext]_vars

\* the upload page when every timer set by sleep() fires and every promise
\* of fetch() and response.json() settles
UploadFairSpec ==
  /\ UploadSpec
  /\ WF_vars(\E a \in attempts : OcrStage(a))
  /\ WF_vars(\E a \in attempts : SendUpload(a))
  /\ WF_vars(\E a \in attempts : UploadFails(a) \/ ExtractingStage(a))
  /\ WF_vars(\E a \in attempts : ReadJson(a))
  /\ WF_vars(\E a \in attempts : UploadJsonFails(a) \/ DoneStage(a))
  /\ WF_vars(\E a \in attempts : Redirect(a))

\* ============================================================ review page
\* --------------------------------------------------------- specification
Next ==
  \/ LoadFetchDone
  \/ LoadJsonFails
  \/ LoadJsonDone
  \/ AutoFillTimer
  \/ \E f \in Controls, v \in UserValues : Edit(f, v)
  \/ SubmitEvent
  \/ ConfirmClick
  \/ ModalHidden
  \/ DismissModal
  \/ \E r \in requests : PostFetchFails(r)
  \/ \E r \in requests : PostFetchOk(r)
  \/ \E r \in requests : PostJsonFails(r)
  \/ \E r \in requests : PostJsonDone(r)

Spec == Init /\ [][Next]_vars

\* ------------------------------------- autoFillForm over the confidences
\* the confidences of the grid of hundredths, and the absent one
GridConfs == (0..100) \cup {Undefined}

\* the review page with the 300 ms timer pending, the response having
\* carried one field, of any confidence of the grid
ClassifyInit ==
  /\ fromUpload = TRUE
  /\ loadPc = "timer"
  /\ \E c \in GridConfs :
       extractedFields =
         [defined |-> TRUE,
          fields  |-> [a \in {"name"} |-> [value |-> "Asha", conf |-> c]]]
  /\ fieldConfidences = [f \in Controls |-> Undefined]
  /\ hasLowConfidence = FALSE
  /\ inputValue = [f \in Controls |-> ""]
  /\ classList = [f \in Controls |-> {}]
  /\ confDiv = [f \in FormFields |-> NoBadge]
  /\ confidenceIndicator = [display |-> "none", className |-> ""]
  /\ confirmModal = "hidden"
  /\ submitBtn = [disabled |-> FALSE, textContent |-> OriginalLabel]
  /\ errorSection = [display |-> "none", textContent |-> ""]
  /\ requests = {}
  /\ sent = 0
  /\ navigated = FALSE
  /\ edits = 0
  /\ edited = {}
  /\ lastEvent = [op |-> "loadJson"]
  /\ UploadPageInit

ClassifyNext == AutoFillTimer

ClassifySpec == ClassifyInit /\ [][ClassifyNext]_vars

\* ------------------------------------------- autoFillForm applied again
\* what autoFillForm writes: the visible form and the module-scope records
FormState ==
  << inputValue, classList, confDiv, confidenceIndicator, fieldConfidences,
     hasLowConfidence >>

\* autoFillForm is called once more with the data it was called with
AutoFillAgain ==
  /\ ~navigated
  /\ loadPc = "done"
  /\ autoFillForm(extractedFields)
  /\ lastEvent' = [op |-> "autoFillAgain", after |-> lastEvent.op,
                   before |-> FormState]
  /\ UNCHANGED << uploadVars, fromUpload, loadPc, extractedFields,
                  confirmModal, submitBtn, errorSection, requests, sent,
                  navigated, edits, edited >>

AutoFillInit == ReviewPageInit({TRUE}) /\ UploadPageInit

AutoFillNext ==
  \/ LoadFetchDone
  \/ LoadJsonDone
  \/ AutoFillTimer
  \/ \E f \in Controls, v \in UserValues : Edit(f, v)
  \/ AutoFillAgain

\* the review page with repeated runs of autoFillForm on the same data,
\* before, between and after the user's edits
AutoFillSpec == AutoFillInit /\ [][AutoFillNext]_vars

\* ================================================================ claims
\* the handler that ran last sent a POST, which is the newest request
JustSent ==
  \/ lastEvent.op = "confirm"
  \/ lastEvent.op = "submit" /\ ~lastEvent.prompted

LatestRequest == CHOOSE r \in requests : r.id = sent

StartsWith(text, prefix) ==
  /\ Len(text) >= Len(prefix)
  /\ SubSeq(text, 1, Len(prefix)) = prefix

\* C1: when the submit event fires, the confirmation prompt is shown if and
\* only if some field is in Medium or Low confidence state at that moment
\* (recorded confidence in (0, 0.75)), edits made after load included.
C1_PromptIffNeedsReview ==
  lastEvent.op = "submit" => (lastEvent.prompted <=> lastEvent.anyLow)

\* C2: every recognized field the user edited before a submission is sent
\* is recorded with confidence 1.0 in that submission's field_confidences,
\* whatever the interleaving of edits with the fetch and the auto-fill.
C2_EditedRecordedVerified ==
  JustSent =>
    \A a \in ApiFields :
      FormFieldOf(a) \in edited =>
        /\ a \in DOMAIN LatestRequest.body.field_confidences
        /\ LatestRequest.body.field_confidences[a].conf = 100

\* C3: a submit event with a field marked Medium/Low sends no POST and shows
\* the prompt; a POST is sent only by a submit event at which no field was
\* Medium/Low or by a confirm click on a shown prompt; a submit event with no
\* field Medium/Low sends the POST at once, without a prompt.
C3_DeferredSubmission ==
  /\ lastEvent.op = "submit" /\ lastEvent.anyLow => lastEvent.prompted
  /\ lastEvent.op = "submit" /\ ~lastEvent.prompted => ~lastEvent.anyLow
  /\ lastEvent.op = "confirm" => lastEvent.modal \in {"shown", "hiding"}
  /\ lastEvent.op = "submit" /\ ~lastEvent.anyLow =>
       /\ ~lastEvent.prompted
       /\ \E r \in requests : r.id = sent /\ r.via = "submit"

\* the text area holds nothing but blanks
IsBlank(text) == \A i \in 1..Len(text) : SubSeq(text, i, i) = " "

ValidationMessages ==
  {"Please upload a file or paste certificate text",
   "Please use either file upload or text paste, not both"}

\* C4: a click with both a file and text present, or with neither (text
\* counted after trimming), shows a validation error and starts nothing: no
\* request, the control enabled, no progress indicator, no navigation.
C4_ValidationRejects ==
  uploadEvent.op \in {"rejected", "started"} =>
    ( ((uploadEvent.files # << >>) <=> ~IsBlank(uploadEvent.text)) =>
        /\ uploadEvent.op = "rejected"
        /\ uploadErrorSection.display = "block"
        /\ uploadErrorSection.textContent \in ValidationMessages
        /\ uploads = {}
        /\ attempts = {}
        /\ ~extractBtn.disabled
        /\ progressSection.display = "none"
        /\ ~uploadNavigated )

C4_Witness ==
  /\ uploadEvent.op = "rejected"
  /\ uploadEvent.files # << >>
  /\ uploadEvent.text = " cert "

\* C5: when the extraction request gets a non-success response or fails at
\* the network level, the attempt ends with the progress indicator hidden,
\* the control enabled, the error region showing text that begins with
\* "Extraction failed:", no navigation and no request left or started.
C5_ExtractionFailureHandled ==
  uploadEvent.op = "failed" =>
    /\ progressSection.display = "none"
    /\ ~extractBtn.disabled
    /\ uploadErrorSection.display = "block"
    /\ StartsWith(uploadErrorSection.textContent, "Extraction failed:")
    /\ ~uploadNavigated
    /\ uploads = {}
    /\ attempts = {}

C5_Witness ==
  /\ uploadEvent.op = "failed"
  /\ uploadEvent.outcome = "not_ok"
  /\ uploadErrorSection.textContent = "Extraction failed: Upload failed"

\* C6: no two POSTs to /api/submit_internship are in flight at once.
C6_OnePostInFlight == Cardinality(requests) <= 1

\* C7: at most one extraction attempt is in progress and at most one request
\* to /api/upload_certificate is in flight; while an attempt is in progress
\* the extract control is disabled.
C7_OneAttemptInFlight ==
  /\ Cardinality(attempts) <= 1
  /\ Cardinality(uploads) <= 1
  /\ attempts # {} => extractBtn.disabled
  /\ \A u \in uploads : \E a \in attempts : a.id = u.id /\ a.pc = "fetch"

C7_Witness ==
  \E a \in attempts : a.id = 2 /\ a.pc = "fetch" /\ uploads # {}

\* C8: whenever the POST fails (non-success response or network failure) the
\* error region shows "Submission failed: " followed by the error text, the
\* submit control is enabled with its original label, and no request was
\* sent by the failure handling.
C8_SubmitFailureHandled ==
  lastEvent.op = "postFailed" =>
    /\ errorSection.display = "block"
    /\ StartsWith(errorSection.textContent, "Submission failed: ")
    /\ Len(errorSection.textContent) > Len("Submission failed: ")
    /\ lastEvent.outcome = "not_ok" =>
         errorSection.textContent = "Submission failed: Submission failed"
    /\ ~submitBtn.disabled
    /\ submitBtn.textContent = "Submit for Credit Evaluation"
    /\ requests = lastEvent.before \ {lastEvent.request}
    /\ ~navigated

C8_Witness ==
  /\ lastEvent.op = "postFailed"
  /\ lastEvent.outcome \in {"not_ok", "network_error"}
  /\ lastEvent.request.via = "confirm"

\* a step of the catch block of submitForm
SubmitFailureStep ==
  \E r \in requests : PostFetchFails(r) \/ PostJsonFails(r)

\* C9 as stated: after submitForm fails, every field value and recorded
\* confidence equals what it was when the request was sent, so that the
\* payload of a resubmission is the payload sent (the user editing nothing
\* in the whole run).
C9_FormAsSent ==
  lastEvent.op = "postFailed" /\ edits = 0 =>
    formData = lastEvent.request.body

\* C9 amended: the failure handling itself changes no field value and no
\* recorded confidence, so the payload a resubmission would send is the one
\* the form held right before the failure was handled.
C9_FailureKeepsForm ==
  [][ SubmitFailureStep =>
        /\ inputValue' = inputValue
        /\ fieldConfidences' = fieldConfidences
        /\ formData' = formData ]_vars

C9_Witness ==
  /\ lastEvent.op = "postFailed"
  /\ \E f \in FormFields : inputValue[f] # "" /\ fieldConfidences[f] = 100
  /\ formData = lastEvent.request.body

\* the api fields auto-fill has filled so far
AutoFilled ==
  IF loadPc = "done" /\ extractedFields.defined
  THEN { a \in ApiFields \cap DOMAIN extractedFields.fields :
           extractedFields.fields[a].value # "" }
  ELSE {}

\* C10: field_confidences of a payload has an entry for a field only if the
\* field was auto-filled or edited before the payload was built, the entry
\* carrying the recorded confidence; level never appears in it.
C10_OnlyRecordedFields ==
  JustSent =>
    LET fc == LatestRequest.body.field_confidences
    IN  /\ DOMAIN fc \subseteq ApiFields
        /\ "level" \notin DOMAIN fc
        /\ \A a \in DOMAIN fc :
             /\ a \in AutoFilled \/ FormFieldOf(a) \in edited
             /\ fc[a].conf = fieldConfidences[FormFieldOf(a)]
             /\ fc[a].conf # Undefined

C10_Witness ==
  /\ JustSent
  /\ "level" \in edited
  /\ DOMAIN LatestRequest.body.field_confidences = {"name"}

\* the control shows and records "verified by the user"
VerifiedState(f) ==
  /\ fieldConfidences[f] = 100
  /\ "low-confidence-field" \notin classList[f]
  /\ f \in FormFields => confDiv[f] = VerifiedBadge

\* the step is a run of autoFillForm
AutoFillStep == loadPc = "timer" /\ loadPc' = "done"

\* C11: right after a change event on a control, its recorded confidence is
\* 1.0, its needs-verification marker is cleared and its badge is the
\* verified one; and no step other than an auto-fill takes an edited control
\* out of that state.
C11_EditVerifiesOneWay ==
  /\ [](lastEvent.op = "edit" => VerifiedState(lastEvent.field))
  /\ [][ \A f \in edited :
           VerifiedState(f) /\ ~AutoFillStep => VerifiedState(f)' ]_vars

C11_Witness ==
  /\ lastEvent.op = "edit"
  /\ lastEvent.field = "name"
  /\ loadPc = "done"
  /\ extractedFields.defined
  /\ "name" \in DOMAIN extractedFields.fields
  /\ extractedFields.fields["name"] = [value |-> "Asha", conf |-> 40]
  /\ VerifiedState("name")

\* C12: after autoFillForm(fields): no banner if the result held no field;
\* the affirmative banner if every field it filled is High; the attention
\* banner if a field it filled is Medium or Low; and the affirmative banner
\* only when every field it filled has confidence >= 0.75.
C12_BannerMatchesFields ==
  lastEvent.op = "autoFill" /\ extractedFields.defined =>
    LET fields  == extractedFields.fields
        present == { a \in DOMAIN fields : fields[a].value # "" }
        allHigh == "alert confidence-indicator-all-high"
        needs   == "alert confidence-indicator-needs-attention"
    IN  /\ DOMAIN fields = {} => confidenceIndicator.display = "none"
        /\ present # {} /\ (\A a \in present : fields[a].conf >= 75) =>
             /\ confidenceIndicator.display = "block"
             /\ confidenceIndicator.className = allHigh
        /\ (\E a \in present : fields[a].conf > 0 /\ fields[a].conf < 75) =>
             /\ confidenceIndicator.display = "block"
             /\ confidenceIndicator.className = needs
        /\ confidenceIndicator.className = allHigh =>
             \A a \in present : fields[a].conf >= 75

\* C13: autoFillForm is idempotent: a run of it right after a run with the
\* same data leaves the field values, markers, badges, banner, recorded
\* confidences and gating flag as the first run left them.
C13_AutoFillIdempotent ==
  lastEvent.op = "autoFillAgain"
    /\ lastEvent.after \in {"autoFill", "autoFillAgain"} =>
      FormState = lastEvent.before

C13_Witness ==
  /\ lastEvent.op = "autoFillAgain"
  /\ lastEvent.after = "autoFillAgain"
  /\ extractedFields.defined
  /\ hasLowConfidence
  /\ \E f \in edited :
       {"field-verified", "low-confidence-field"} \subseteq classList[f]

\* C14: for every confidence c of the grid, auto-fill shows the High badge
\* iff c >= 0.75, the Medium badge iff 0.50 <= c < 0.75, the Low badge iff
\* 0 < c < 0.50 and no badge iff c <= 0 or c is absent; the
\* needs-verification marker is set iff the level is Medium or Low.
C14_Classification ==
  loadPc = "done" =>
    LET c      == extractedFields.fields["name"].conf
        badge  == confDiv["name"].className
        marker == "low-confidence-field" \in classList["name"]
    IN  /\ badge = "field-confidence confidence-high"
             <=> (c # Undefined /\ c >= 75)
        /\ badge = "field-confidence confidence-medium"
             <=> (c # Undefined /\ c >= 50 /\ c < 75)
        /\ badge = "field-confidence confidence-low"
             <=> (c # Undefined /\ c > 0 /\ c < 50)
        /\ confDiv["name"] = NoBadge <=> (c = Undefined \/ c <= 0)
        /\ marker <=> (c # Undefined /\ c > 0 /\ c < 75)
        /\ hasLowConfidence <=> marker

C14_Witness ==
  /\ loadPc = "done"
  /\ extractedFields.fields["name"].conf = 75
  /\ confDiv["name"].textContent = "High confidence (75%)"
  /\ "low-confidence-field" \notin classList["name"]

\* the load of the extraction data failed: the fetch or the parse was
\* rejected, or the body carried no extracted_fields
LoadFailed ==
  \/ loadPc = "failed"
  \/ loadPc \in {"timer", "done"} /\ ~extractedFields.defined

\* C15: loadExtractedData runs only on a page reached through the upload
\* flow; once the load has failed no field is filled or marked Medium/Low,
\* no banner and no load error is shown, and a submit event sends the POST
\* without a confirmation prompt.
C15_FailOpen ==
  /\ fromUpload <=> loadPc # "none"
  /\ LoadFailed =>
       /\ ~hasLowConfidence
       /\ \A f \in Controls :
            /\ classList[f] \subseteq {"field-verified"}
            /\ fieldConfidences[f] \in {Undefined, 100}
            /\ inputValue[f] \in UserValues
       /\ \A f \in FormFields : confDiv[f] \in {NoBadge, VerifiedBadge}
       /\ confidenceIndicator.display = "none"
       /\ confirmModal = "hidden"
       /\ errorSection.display = "block" =>
            StartsWith(errorSection.textContent, "Submission failed: ")
       /\ lastEvent.op = "submit" =>
            /\ ~lastEvent.prompted
            /\ \E r \in requests : r.id = sent /\ r.via = "submit"

C15_Witness ==
  /\ loadPc = "failed"
  /\ lastEvent.op = "submit"
  /\ ~lastEvent.prompted
  /\ \E r \in requests : r.id = sent /\ r.via = "submit"

\* the stages in the order the indicator may show them
NextStage == {<<25, 50>>, <<50, 75>>, <<75, 100>>}

\* C16: within an attempt the progress indicator only advances received
\* (25) -> OCR (50) -> field-extraction (75) -> done (100), one stage at a
\* time, and restarts at received only with a new attempt; a request is in
\* flight only with the OCR stage shown, and the page navigates only with
\* the done stage shown.
C16_ProgressOrder ==
  /\ [][ progressBar' # progressBar =>
           \/ <<progressBar, progressBar'>> \in NextStage
           \/ /\ progressBar' = 25
              /\ attempts = {}
              /\ \E a \in attempts' : a.pc = "sleep500" ]_vars
  /\ [](uploads # {} => progressBar = 50)
  /\ [](uploadNavigated => progressBar = 100)
  /\ [](progressBar # 0 =>
          \E st \in {"received", "ocr", "extracting", "done"} :
            /\ progressText = StageText(st)
            /\ progressBar = CASE st = "received" -> 25 [] st = "ocr" -> 50
                               [] st = "extracting" -> 75 [] OTHER -> 100)

C16_Witness ==
  /\ uploadNavigated
  /\ progressBar = 100
  /\ progressText = "Done -> Redirecting..."
  /\ clicks = 2

\* the outcome Idle with the error shown and the control enabled
IdleWithError ==
  /\ attempts = {}
  /\ ~uploadNavigated
  /\ ~extractBtn.disabled
  /\ uploadErrorSection.display = "block"
  /\ progressSection.display = "none"

\* the outcome Navigated
Navigated == attempts = {} /\ uploadNavigated /\ extractBtn.disabled

\* C17: timers firing and requests settling, every attempt that passed
\* validation ends Navigated or Idle with the error shown and the control
\* enabled, and no state is both.
C17_AttemptTerminates ==
  /\ (attempts # {}) ~> (Navigated \/ IdleWithError)
  /\ [](~(Navigated /\ IdleWithError))
  /\ [](uploadNavigated => Navigated)

C17_Witness ==
  /\ Navigated
  /\ clicks = 2
  /\ StartsWith(uploadErrorSection.textContent, "Extraction failed: ")
  /\ uploadErrorSection.display = "none"

\* C18: the body of every extraction request is the input that passed
\* validation at click time (the file, or the non-blank text), whatever the
\* user does to the file selection or the text area during the delays.
C18_BodyIsValidatedInput ==
  \A u \in uploads :
    \E a \in attempts :
      /\ a.id = u.id
      /\ IF Len(a.validated.files) > 0
         THEN /\ u.body.kind = "multipart"
              /\ u.body.content = a.validated.files[1]
         ELSE /\ u.body.kind = "json"
              /\ u.body.content = a.validated.text
              /\ ~IsBlank(u.body.content)

====
